---- MODULE Spec2Model ----
(***************************************************************************)
(* State-machine model of update_stats.py: the credential check at module  *)
(* load, fetch_github_graphql_data (creation date, per-year contributions, *)
(* last-365-days contributions, profile counts), get_contributions_for_    *)
(* period, and save_stats_to_json.                                         *)
(*                                                                         *)
(* Time is an integer number of ticks.  A calendar year has YearLen ticks: *)
(* tick 0 of a year is Jan 1 00:00:00 exactly, tick YearLen-2 is Dec 31    *)
(* 23:59:59 exactly, tick YearLen-1 is a moment inside the last second of  *)
(* the year (datetime.now has microseconds), the others are moments in     *)
(* between.  timedelta(days=365) is one year of ticks (leap days are not   *)
(* modelled).                                                              *)
(***************************************************************************)
EXTENDS Integers, Sequences, FiniteSets

\* ---- bounds of the model ------------------------------------------------
MaxYear == 1
YearLen == 4
MaxDelay == 1
MaxContrib == 1
MaxCount == 1
MaxNodes == 1
MaxStars == 1

\* ---- values ---------------------------------------------------------------
None == "None"
GITHUB_USERNAME == "sfedor2020"

Max(a, b) == IF a >= b THEN a ELSE b
Min(a, b) == IF a <= b THEN a ELSE b

Ticks == 0 .. (MaxYear + 1) * YearLen - 1

YearOf(t) == t \div YearLen
YearStart(y) == y * YearLen
YearEnd(y) == y * YearLen + YearLen - 2

\* the run starts in the latest year of the model; only the position of the
\* creation time relative to the current time matters to the windows
StartTimes == {t \in Ticks : YearOf(t) = MaxYear}

\* createdAt comes from the API in whole seconds
WholeSeconds == {t \in Ticks : t % YearLen # YearLen - 1}

\* "2008-02-08T00:00:00Z": a moment inside the earliest year
FallbackCreatedAt == 1

Days365 == YearLen

DeclaredKeys ==
    {"username", "totalContributionsAllTime", "totalContributionsLastYear",
     "totalRepositories", "publicRepositories", "privateRepositories",
     "followers", "following", "totalStarsReceived", "dataFetchedAt",
     "errorFetching"}

VARIABLES
    pc,                  \* position of the process
    GITHUB_TOKEN,        \* os.environ.get('GH_PAT')
    fileWritable,        \* whether open(filepath, 'w') succeeds
    clock,               \* the wall clock, read by datetime.now
    stats,               \* the record built by fetch_github_graphql_data
    created_at_date,
    current_utc_datetime,
    year_num,
    all_time_contributions_sum,
    requests,            \* every requests.post issued so far, in order
    file,                \* what json.dump has written, one entry per write
    exitCode

vars == <<pc, GITHUB_TOKEN, fileWritable, clock, stats, created_at_date,
          current_utc_datetime, year_num, all_time_contributions_sum,
          requests, file, exitCode>>

locals == <<created_at_date, current_utc_datetime, year_num,
            all_time_contributions_sum>>

\* ---- the credential check (module level) ----------------------------------
TokenMissingOnlyNone(tok) == tok = None

TokenMissing(tok) == tok = None \/ tok = ""

\* ---- the record -------------------------------------------------------------
NewStats(now) ==
    [username |-> GITHUB_USERNAME,
     totalContributionsAllTime |-> 0,
     totalContributionsLastYear |-> 0,
     totalRepositories |-> 0,
     publicRepositories |-> 0,
     privateRepositories |-> 0,
     followers |-> 0,
     following |-> 0,
     totalStarsReceived |-> 0,
     dataFetchedAt |-> now,
     errorFetching |-> None]

Init ==
    /\ pc = "start"
    /\ GITHUB_TOKEN \in {None, "", "pat"}
    /\ fileWritable \in BOOLEAN
    /\ clock \in StartTimes
    /\ stats = NewStats(0)
    /\ created_at_date = 0
    /\ current_utc_datetime = 0
    /\ year_num = 0
    /\ all_time_contributions_sum = 0
    /\ requests = <<>>
    /\ file = <<>>
    /\ exitCode = 0

\* stats[key] = value (a Python dict assignment: an unknown key is added)
SetKey(st, key, value) ==
    [k \in DOMAIN st \cup {key} |-> IF k = key THEN value ELSE st[k]]

\* ---- the except clauses of fetch_github_graphql_data ------------------------
OnHTTPErrorMisspelt(st) == SetKey(st, "errorFetchng", "HTTP error")

OnHTTPErrorReset(st) == SetKey(NewStats(st.dataFetchedAt), "errorFetching", "HTTP error")

OnHTTPError(st) == SetKey(st, "errorFetching", "HTTP error")

OnRequestException(st) == SetKey(st, "errorFetching", "Network Error")

OnException(st) == SetKey(st, "errorFetching", "Unexpected error")

\* where control goes when a request raises inside the try block: each of the
\* except clauses falls through to "return stats"
AfterRaiseTimeoutUncaught(kind) == IF kind = "timeout" THEN "crashed" ELSE "returned"

AfterRaise(kind) == "returned"

\* which except clause an exception raised inside the try block reaches
Handle(st, kind) ==
    IF kind = "http" THEN OnHTTPError(st)
    ELSE IF kind \in {"timeout", "conn"} THEN OnRequestException(st)
    ELSE OnException(st)

\* if not stats["errorFetching"]: stats["errorFetching"] = msg
SetIfNoError(st, msg) ==
    IF st["errorFetching"] = None \/ st["errorFetching"] = ""
      THEN SetKey(st, "errorFetching", msg)
      ELSE st

\* ---- responses of the remote API --------------------------------------------
Absent == <<>>
Some(x) == <<x>>
Opt(S) == {Absent} \cup {Some(x) : x \in S}
SeqsUpTo(S, n) == UNION {[1 .. k -> S] : k \in 0 .. n}

RaisingKinds == {"http", "timeout", "conn"}

\* the creation-date query: 200 with createdAt, 200 with "errors", 200 without
\* createdAt (user null or field missing), 200 with "data": null, or a raise
CreationResponses ==
    {[kind |-> "ok", createdAt |-> c] : c \in WholeSeconds}
    \cup {[kind |-> k, createdAt |-> 0] :
            k \in {"gql", "missing", "nulldata"} \cup RaisingKinds}

\* a period query: 200 with totalContributions, or one of the failures
PeriodResponses ==
    {[kind |-> "ok", total |-> v] : v \in 0 .. MaxContrib}
    \cup {[kind |-> k, total |-> 0] : k \in {"gql"} \cup RaisingKinds}

RepositoriesObjects ==
    [publicRepoCount : 0 .. MaxCount,
     nodes : Opt(SeqsUpTo(0 .. MaxStars, MaxNodes))]

AllRepositoriesObjects == [totalRepoCount : 0 .. MaxCount]

CountObjects == [totalCount : 0 .. MaxCount]

NoUserFields ==
    [repositories |-> Absent, allRepositories |-> Absent,
     followers |-> Absent, following |-> Absent]

UserObjects ==
    [repositories : Opt(RepositoriesObjects),
     allRepositories : Opt(AllRepositoriesObjects),
     followers : Opt(CountObjects),
     following : Opt(CountObjects)]

\* the profile query: a raise, or a JSON body
ProfileResponses ==
    {[kind |-> k, errors |-> FALSE, data |-> "null", user |-> NoUserFields] :
        k \in RaisingKinds}
    \cup {[kind |-> "ok", errors |-> e, data |-> d, user |-> NoUserFields] :
            e \in BOOLEAN, d \in {"null", "nouser"}}
    \cup {[kind |-> "ok", errors |-> e, data |-> "user", user |-> u] :
            e \in BOOLEAN, u \in UserObjects}

\* ---- get_contributions_for_period --------------------------------------------
\* every failure is caught inside the function and turned into 0
get_contributions_for_period(resp) ==
    IF resp.kind = "ok" THEN resp.total ELSE 0

\* ---- the year windows ----------------------------------------------------------
period_from_unclipped(y, created) == YearStart(y)

period_from_dt(y, created) == Max(YearStart(y), created)
period_to_dt(y, now) == Min(YearEnd(y), now)

two_years_ago_utc(now) == now - 2 * Days365

one_year_ago_utc(now) == now - Days365

last_365_from_date(now, created) ==
    IF one_year_ago_utc(now) < created THEN created ELSE one_year_ago_utc(now)

\* ---- the profile step ------------------------------------------------------------
RECURSIVE SumStars(_)
SumStars(nodes) ==
    IF nodes = <<>> THEN 0 ELSE Head(nodes) + SumStars(Tail(nodes))

DerivePrivateUnclamped(total, public) == total - public

DerivePrivate(total, public) ==
    IF total >= public THEN total - public ELSE 0

\* lines 189-213, given the user object; a null "nodes" raises inside sum()
MergeUser(st, u) ==
    LET st1 == IF u.repositories # Absent
                 THEN SetKey(st, "publicRepositories", u.repositories[1].publicRepoCount)
                 ELSE st
        nodesNull == u.repositories # Absent /\ u.repositories[1].nodes = Absent
        st2 == IF u.repositories # Absent /\ ~nodesNull
                 THEN SetKey(st1, "totalStarsReceived", SumStars(u.repositories[1].nodes[1]))
                 ELSE st1
        st3 == IF u.allRepositories # Absent
                 THEN SetKey(st2, "totalRepositories", u.allRepositories[1].totalRepoCount)
                 ELSE st2
        st4 == SetKey(st3, "privateRepositories",
                      DerivePrivate(st3["totalRepositories"], st3["publicRepositories"]))
        st5 == IF u.followers # Absent
                 THEN SetKey(st4, "followers", u.followers[1].totalCount)
                 ELSE st4
        st6 == IF u.following # Absent
                 THEN SetKey(st5, "following", u.following[1].totalCount)
                 ELSE st5
    IN  IF nodesNull THEN OnException(st1) ELSE st6

\* lines 178-230, given the response
ApplyProfile(st, resp) ==
    IF resp.kind \in RaisingKinds THEN Handle(st, resp.kind)
    ELSE LET st1 == IF resp.errors
                      THEN SetIfNoError(st, "GraphQL ERR (other_stats)")
                      ELSE st
         IN  IF resp.data = "null" THEN OnException(st1)
             ELSE IF resp.data = "nouser"
               THEN SetIfNoError(st1, "WARN: 'user' data key missing for other stats.")
             ELSE MergeUser(st1, resp.user)

\* json.dump: the same keys, None written as null
JsonDump(st) ==
    [k \in DOMAIN st |->
        IF k = "errorFetching" /\ st[k] = None THEN "null" ELSE st[k]]

Request(q, from, to, outcome, total) ==
    [q |-> q, from |-> from, to |-> to, outcome |-> outcome, total |-> total]

\* whether a sub-query failed: an HTTP error status, a timeout, a connection
\* error, a GraphQL "errors" envelope, or a body without the data asked for
CreationOutcome(resp) == IF resp.kind = "ok" THEN "ok" ELSE "failed"
PeriodOutcome(resp) == IF resp.kind = "ok" THEN "ok" ELSE "failed"
ProfileOutcome(resp) ==
    IF resp.kind = "ok" /\ ~resp.errors /\ resp.data = "user" THEN "ok" ELSE "failed"

CheckToken ==
    /\ pc = "start"
    /\ IF TokenMissing(GITHUB_TOKEN)
         THEN pc' = "exited" /\ exitCode' = 1
         ELSE pc' = "main" /\ exitCode' = exitCode
    /\ UNCHANGED <<GITHUB_TOKEN, fileWritable, clock, stats, locals, requests, file>>

\* lines 71-84
CreateRecord ==
    /\ pc = "main"
    /\ stats' = NewStats(clock)
    /\ pc' = "step1"
    /\ UNCHANGED <<GITHUB_TOKEN, fileWritable, clock, locals, requests, file, exitCode>>

\* lines 86-118 and, when the request raises, 220-232
FetchCreationDate ==
    /\ pc = "step1"
    /\ \E resp \in CreationResponses, now \in clock .. clock + MaxDelay :
         /\ requests' = Append(requests, Request("createdAt", 0, 0, CreationOutcome(resp), 0))
         /\ IF resp.kind \in RaisingKinds \cup {"nulldata"}
              THEN /\ stats' = Handle(stats, resp.kind)
                   /\ pc' = AfterRaise(resp.kind)
                   /\ UNCHANGED <<clock, locals>>
              ELSE /\ stats' =
                        IF resp.kind = "gql"
                          THEN SetKey(stats, "errorFetching", "GraphQL ERR (createdAt)")
                        ELSE IF resp.kind = "missing"
                          THEN SetKey(stats, "errorFetching", "WARN: Could not parse createdAt.")
                        ELSE stats
                   /\ created_at_date' =
                        IF resp.kind = "ok" THEN resp.createdAt ELSE FallbackCreatedAt
                   /\ clock' = now
                   /\ current_utc_datetime' = now
                   /\ year_num' = YearOf(created_at_date')
                   /\ all_time_contributions_sum' = 0
                   /\ pc' = "step2"
    /\ UNCHANGED <<GITHUB_TOKEN, fileWritable, file, exitCode>>

\* one iteration of the loop of lines 119-137
YearIteration ==
    /\ pc = "step2"
    /\ year_num <= YearOf(current_utc_datetime)
    /\ LET from == period_from_dt(year_num, created_at_date)
           to == period_to_dt(year_num, current_utc_datetime)
       IN  IF from >= to
             THEN UNCHANGED <<requests, all_time_contributions_sum>>
             ELSE \E resp \in PeriodResponses :
                    /\ requests' = Append(requests,
                          Request("year", from, to, PeriodOutcome(resp),
                                  get_contributions_for_period(resp)))
                    /\ all_time_contributions_sum' =
                          all_time_contributions_sum + get_contributions_for_period(resp)
    /\ year_num' = year_num + 1
    /\ UNCHANGED <<pc, GITHUB_TOKEN, fileWritable, clock, stats, created_at_date,
                   current_utc_datetime, file, exitCode>>

\* lines 140-141, when the loop is over
FinishYears ==
    /\ pc = "step2"
    /\ year_num > YearOf(current_utc_datetime)
    /\ stats' = SetKey(stats, "totalContributionsAllTime", all_time_contributions_sum)
    /\ pc' = "step3"
    /\ UNCHANGED <<GITHUB_TOKEN, fileWritable, clock, locals, requests, file, exitCode>>

\* lines 143-158
Last365 ==
    /\ pc = "step3"
    /\ LET from == last_365_from_date(current_utc_datetime, created_at_date)
           to == current_utc_datetime
       IN  IF from < to
             THEN \E resp \in PeriodResponses :
                    /\ requests' = Append(requests,
                          Request("last365", from, to, PeriodOutcome(resp),
                                  get_contributions_for_period(resp)))
                    /\ stats' = SetKey(stats, "totalContributionsLastYear",
                                       get_contributions_for_period(resp))
             ELSE /\ stats' = SetKey(stats, "totalContributionsLastYear", 0)
                  /\ UNCHANGED requests
    /\ pc' = "step4"
    /\ UNCHANGED <<GITHUB_TOKEN, fileWritable, clock, locals, file, exitCode>>

\* lines 160-232
FetchProfile ==
    /\ pc = "step4"
    /\ \E resp \in ProfileResponses :
         /\ requests' = Append(requests,
               Request("profile", 0, 0, ProfileOutcome(resp), 0))
         /\ stats' = ApplyProfile(stats, resp)
         /\ pc' = IF resp.kind \in RaisingKinds THEN AfterRaise(resp.kind) ELSE "returned"
    /\ UNCHANGED <<GITHUB_TOKEN, fileWritable, clock, locals, file, exitCode>>

\* lines 234-258
SaveStats ==
    /\ pc = "returned"
    /\ IF fileWritable
         THEN /\ file' = Append(file, JsonDump(stats))
              /\ pc' = "done"
              /\ exitCode' = exitCode
         ELSE /\ pc' = "exited"
              /\ exitCode' = 1
              /\ file' = file
    /\ UNCHANGED <<GITHUB_TOKEN, fileWritable, clock, stats, locals, requests>>

Next ==
    \/ CheckToken
    \/ CreateRecord
    \/ FetchCreationDate
    \/ YearIteration
    \/ FinishYears
    \/ Last365
    \/ FetchProfile
    \/ SaveStats

Spec == Init /\ [][Next]_vars

\* ---- vocabulary of the properties -------------------------------------------
CredentialPresent == GITHUB_TOKEN # None /\ GITHUB_TOKEN # ""

\* fetch_github_graphql_data has returned its record
RecordReturned == pc \in {"returned", "done"} \/ (pc = "exited" /\ requests # <<>>)

\* the loop over the years is over
AfterYears == pc \in {"step3", "step4"} \/ (RecordReturned /\ Len(requests) > 1)

CreationSucceeded == requests # <<>> /\ requests[1].outcome = "ok"
CreationFailed == requests # <<>> /\ requests[1].outcome = "failed"

IsYear(r) == r.q = "year"
IsLast365(r) == r.q = "last365"
IsProfile(r) == r.q = "profile"
YearQueries == SelectSeq(requests, IsYear)
Last365Queries == SelectSeq(requests, IsLast365)
ProfileQueries == SelectSeq(requests, IsProfile)

Windows(qs) == [i \in DOMAIN qs |-> <<qs[i].from, qs[i].to>>]

RECURSIVE SumTotals(_)
SumTotals(qs) == IF qs = <<>> THEN 0 ELSE Head(qs).total + SumTotals(Tail(qs))

\* one window per calendar year from year(c) to year(n):
\* [max(Jan 1 of y, c), min(Dec 31 23:59:59 of y, n)]
ClippedWindows(c, n) ==
    [i \in 1 .. (YearOf(n) - YearOf(c) + 1) |->
        <<Max(YearStart(YearOf(c) + i - 1), c), Min(YearEnd(YearOf(c) + i - 1), n)>>]

NonEmptyWindow(w) == w[1] < w[2]

ProfileFields ==
    {"totalRepositories", "publicRepositories", "privateRepositories",
     "followers", "following", "totalStarsReceived"}

\* C1: whenever a sub-query of the run failed, the returned record has a
\* non-null errorFetching and the metric the query feeds is 0 (a failed year
\* query adds 0, a failed last-365-days query leaves totalContributionsLastYear
\* at 0, a failed profile query leaves the profile fields at 0).
C1_EveryFailureRecorded ==
    RecordReturned =>
        \A i \in DOMAIN requests :
            requests[i].outcome = "failed" =>
                /\ stats["errorFetching"] # None
                /\ requests[i].q = "year" => requests[i].total = 0
                /\ requests[i].q = "last365" => stats["totalContributionsLastYear"] = 0
                /\ requests[i].q = "profile" => \A k \in ProfileFields : stats[k] = 0

\* C2: first error wins: once errorFetching holds a diagnostic, no later step
\* changes it.
C2_FirstErrorWins ==
    [][stats["errorFetching"] # None
         => stats'["errorFetching"] = stats["errorFetching"]]_vars

\* C3: in every record, privateRepositories = max(totalRepositories -
\* publicRepositories, 0), whatever the profile query returned and whichever
\* steps failed.
C3_PrivateIsClampedDifference ==
    stats["privateRepositories"] =
        Max(stats["totalRepositories"] - stats["publicRepositories"], 0)

C3_Witness ==
    /\ RecordReturned
    /\ stats["publicRepositories"] > stats["totalRepositories"]
    /\ stats["errorFetching"] = None

\* C4 as stated: when the creation-date query succeeds with c < n, there is
\* exactly one period query per calendar year from year(c) to year(n), over the
\* clipped window of that year, and totalContributionsAllTime is the sum of
\* their results.
C4_OneQueryPerYear ==
    (AfterYears /\ CreationSucceeded /\ created_at_date < current_utc_datetime) =>
        /\ Windows(YearQueries) = ClippedWindows(created_at_date, current_utc_datetime)
        /\ pc # "step3" => stats["totalContributionsAllTime"] = SumTotals(YearQueries)

\* C4 amended: when the creation-date query succeeds with c < n, there is
\* exactly one period query per calendar year from year(c) to year(n) whose
\* clipped window has its start strictly before its end, in year order, none for
\* the other years, and totalContributionsAllTime is the sum of their results.
C4_OneQueryPerNonEmptyYear ==
    (AfterYears /\ CreationSucceeded /\ created_at_date < current_utc_datetime) =>
        /\ Windows(YearQueries) =
              SelectSeq(ClippedWindows(created_at_date, current_utc_datetime),
                        NonEmptyWindow)
        /\ pc # "step3" => stats["totalContributionsAllTime"] = SumTotals(YearQueries)

\* created in the middle of one year, run in the middle of the next: two windows
C4_Witness ==
    /\ RecordReturned
    /\ CreationSucceeded
    /\ created_at_date = YearStart(MaxYear - 1) + 1
    /\ current_utc_datetime = YearStart(MaxYear) + 1
    /\ Windows(YearQueries) =
          << <<created_at_date, YearEnd(MaxYear - 1)>>,
             <<YearStart(MaxYear), current_utc_datetime>> >>
    /\ stats["totalContributionsAllTime"] = 2

\* C5: when the creation-date query fails in any way, the run uses the fallback
\* creation time, records a diagnostic, and still issues the per-year queries,
\* the last-365-days query and the profile query.
C5_FallbackAndContinue ==
    (RecordReturned /\ CreationFailed) =>
        /\ created_at_date = FallbackCreatedAt
        /\ stats["errorFetching"] # None
        /\ YearQueries # <<>>
        /\ Last365Queries # <<>>
        /\ ProfileQueries # <<>>

\* how far the process has come
PcRank(p) ==
    CASE p = "start" -> 0
      [] p = "main" -> 1
      [] p = "step1" -> 2
      [] p = "step2" -> 3
      [] p = "step3" -> 4
      [] p = "step4" -> 5
      [] p = "returned" -> 6
      [] OTHER -> 7

\* C6: with the credential present and the output file writable, every run ends
\* having written the record exactly once, whichever queries fail: until the
\* write the process always has a next step and has written nothing, every step
\* moves it forward (to a later position, or to a later year of the bounded
\* loop over the years), and after the write it has written once and stops.
C6_AlwaysWritesOnce ==
    /\ []((CredentialPresent /\ fileWritable) =>
            \/ pc = "done" /\ Len(file) = 1 /\ ~ENABLED Next
            \/ pc # "done" /\ file = <<>> /\ ENABLED Next)
    /\ [][\/ PcRank(pc') > PcRank(pc)
          \/ /\ pc = "step2" /\ pc' = "step2"
             /\ year_num' > year_num
             /\ year_num' <= YearOf(current_utc_datetime) + 1]_vars

C6_Witness ==
    /\ pc = "done"
    /\ Len(file) = 1
    /\ \E i \in DOMAIN requests : requests[i].outcome = "failed"

\* C7: the record, and what is written to the file, always has exactly the
\* eleven declared keys, and dataFetchedAt never changes after the record is
\* created.
C7_ExactlyDeclaredKeys ==
    /\ [](/\ DOMAIN stats = DeclaredKeys
          /\ \A i \in DOMAIN file : DOMAIN file[i] = DeclaredKeys)
    /\ [][pc \notin {"start", "main"}
            => stats'["dataFetchedAt"] = stats["dataFetchedAt"]]_vars

C7_Witness ==
    /\ pc = "done"
    /\ DOMAIN file[1] = DeclaredKeys
    /\ stats["errorFetching"] = "HTTP error"
    /\ stats["totalContributionsAllTime"] > 0
    /\ stats["dataFetchedAt"] < current_utc_datetime

\* C8: with GH_PAT missing or empty, the process can only exit with a non-zero
\* status: no request is issued and no file is written.
C8_NoTokenNoWork ==
    ~CredentialPresent =>
        /\ requests = <<>>
        /\ file = <<>>
        /\ pc \in {"start", "exited"}
        /\ pc = "exited" => exitCode # 0

C8_Witness == GITHUB_TOKEN = "" /\ pc = "exited" /\ exitCode = 1

\* C9: every call of get_contributions_for_period has its 'from' strictly
\* before its 'to' and spans at most one year; the last-365-days window is
\* [max(now - 365 days, createdAt), now], and when its 'from' is not before its
\* 'to' no query is made and totalContributionsLastYear is 0.
C9_WindowsWithinOneYear ==
    /\ \A i \in DOMAIN requests :
          requests[i].q \in {"year", "last365"} =>
              /\ requests[i].from < requests[i].to
              /\ requests[i].to - requests[i].from <= Days365
    /\ \A i \in DOMAIN Last365Queries :
          /\ Last365Queries[i].from =
                Max(current_utc_datetime - Days365, created_at_date)
          /\ Last365Queries[i].to = current_utc_datetime
    /\ (AfterYears /\ pc # "step3"
          /\ Max(current_utc_datetime - Days365, created_at_date) >= current_utc_datetime)
         => Last365Queries = <<>> /\ stats["totalContributionsLastYear"] = 0

C9_Witness ==
    /\ RecordReturned
    /\ \E i \in DOMAIN requests :
          /\ requests[i].q = "last365"
          /\ requests[i].to - requests[i].from = Days365
    /\ Len(YearQueries) < YearOf(current_utc_datetime) - YearOf(created_at_date) + 1

\* C10: when the profile query raises an HTTP or network error, the step
\* leaves the two contribution totals as computed and the profile fields at 0.
C10_FailureKeepsEarlierFields ==
    [][(pc = "step4" /\ stats'["errorFetching"] \in {"HTTP error", "Network Error"})
         => /\ stats'["totalContributionsAllTime"] = all_time_contributions_sum
            /\ stats'["totalContributionsLastYear"] = stats["totalContributionsLastYear"]
            /\ stats'["totalContributionsLastYear"] = SumTotals(Last365Queries)
            /\ \A k \in ProfileFields : stats'[k] = 0]_vars

C10_Witness ==
    /\ pc = "returned"
    /\ ProfileQueries # <<>>
    /\ stats["errorFetching"] = "Network Error"
    /\ stats["totalContributionsAllTime"] > 0
    /\ stats["totalContributionsLastYear"] > 0
    /\ \A k \in ProfileFields : stats[k] = 0
====
